---- MODULE Spec2Model ----
(***************************************************************************)
(* The sidecar lifecycle supervisor of apps/desktop/src-tauri/src/main.rs: *)
(* port selection, launch-target resolution, spawn, health polling, the    *)
(* SidecarState mutex, get_api_port and the window-Destroyed teardown with *)
(* kill_child.                                                             *)
(*                                                                         *)
(* Time is in milliseconds and advances in multiples of POLL_MS.  An event *)
(* stamped t happened in the real interval [t, t + POLL_MS).  Every        *)
(* Instant is used only in differences, so each timer starts at 0.         *)
(*                                                                         *)
(* The operating system is the environment: results of bind, exists,       *)
(* spawn, curl, kill, try_wait and wait are drawn with \E where the call   *)
(* is made.  The child process may exit at any moment (ChildExit); a hung  *)
(* child is the behaviour in which ChildExit never happens.                *)
(*                                                                         *)
(* Mutex poisoning needs a panic while the guard is held.  The guard is    *)
(* held by get_api_port (reads a u16) and by the Destroyed handler; their  *)
(* logging is modelled as effect-free, so lock() always yields Ok here and *)
(* the unwrap_or(9700) / if-let-Ok fallbacks are never taken.              *)
(***************************************************************************)
EXTENDS Integers, Sequences, FiniteSets, TLC

\* ------------------------------------------------------------ bounds
NumWindows == 2      \* window-Destroyed events delivered in one run
NumQueries == 1      \* get_api_port invocations in one run
MaxOversleep == 1    \* a sleep may overrun by this many POLL_MS quanta
MaxDepth == 7        \* ancestors between the working directory and the root
MaxScripts == 2      \* directories of the chain that hold the dev script

\* ------------------------------------------------- program constants
DEFAULT_PORT == 9700
MAX_LEVELS == 6
HEALTH_TIMEOUT_MS == 10000
PROBE_MAX_MS == 1000
HEALTH_SLEEP_MS == 200
KILL_DEADLINE_MS == 5000
POLL_MS == 100

EphemeralPorts == {49152}
\* bind("127.0.0.1:0") then local_addr(): an assigned port, or a failure
ProbeResults ==
    {[ok |-> TRUE, port |-> p] : p \in EphemeralPorts} \cup {[ok |-> FALSE, port |-> 0]}
\* curl -sf --max-time 1: exit 0, an HTTP error status, no connection, or
\* Command::status() itself failing
ProbeOutcomes == {"success", "http_error", "conn_fail", "spawn_err"}
NotFound == 0 - 1
None == "None"
NoState == [child |-> "uninit", port |-> 0]
NoFrame == [fn |-> "none"]

Handlers == 1 .. NumWindows
Queries == 1 .. NumQueries

VARIABLES
    unix,       \* cfg(unix) of the build
    mpc,        \* position of main
    port,       \* main's local `port` (0 before pick_port)
    child,      \* main's local `child`: None or "Some"
    healthy,    \* main's local `healthy`: "unset", "true" or "false"
    frame,      \* inputs and result of the call main made last
    state,      \* the managed SidecarState (NoState before line 180)
    proc,       \* the sidecar process: "none", "running", "zombie", "reaped"
    lock,       \* holder of the Mutex: 0 free, else a handler
    tpc,        \* position of each Destroyed handler
    kpc,        \* position inside kill_child of the lock holder
    now,        \* clock of the running kill_child
    deadline,   \* kill_child's local `deadline`
    wakeAt,     \* earliest return of the current thread::sleep
    qpc,        \* position of each get_api_port call
    qret,       \* value each get_api_port call returned
    hist        \* history of what was done, read by the properties only

vars == <<unix, mpc, port, child, healthy, frame, state, proc, lock, tpc, kpc,
          now, deadline, wakeAt, qpc, qret, hist>>

\* ------------------------------------------------------ PortAllocator
find_free_port(probe) ==
    IF probe.ok THEN probe.port ELSE DEFAULT_PORT

pick_port_AlwaysDefault(inUse, probe) == DEFAULT_PORT

pick_port_SkipInUseCheck(inUse, probe) == find_free_port(probe)

\* lines 26-31; inUse is is_port_in_use(9700) (lines 22-24)
pick_port(inUse, probe) ==
    IF ~inUse THEN DEFAULT_PORT ELSE find_free_port(probe)

\* ----------------------------------------------------- SidecarLocator
resolve_sidecar_path(exeOk, qualified, generic) ==
    IF ~exeOk THEN "none"
    ELSE IF qualified THEN "qualified"
    ELSE IF generic THEN "generic"
    ELSE "none"

DevSearch_AllAncestors(iter, level, depth, scripts) ==
    IF scripts = {} THEN NotFound
    ELSE CHOOSE l \in scripts : \A m \in scripts : l <= m

RECURSIVE DevSearch(_, _, _, _)
DevSearch(iter, level, depth, scripts) ==
    IF iter >= MAX_LEVELS THEN NotFound
    ELSE IF level \in scripts THEN level
    ELSE IF level = depth THEN NotFound
    ELSE DevSearch(iter + 1, level + 1, depth, scripts)

resolve_dev_sidecar(cwdOk, depth, scripts) ==
    IF ~cwdOk THEN NotFound ELSE DevSearch(0, 0, depth, scripts)

LaunchTarget_NoExistsCheck(exeOk, qualified, generic, cwdOk, depth, scripts) ==
    LET bin == resolve_sidecar_path(exeOk, qualified, generic)
    IN  IF bin # "none" THEN bin ELSE "dev"

\* the launch target spawn_api_server settles on: binary first, then script
LaunchTarget(exeOk, qualified, generic, cwdOk, depth, scripts) ==
    LET bin == resolve_sidecar_path(exeOk, qualified, generic)
    IN  IF bin # "none" THEN bin
        ELSE IF resolve_dev_sidecar(cwdOk, depth, scripts) # NotFound THEN "dev"
        ELSE "none"

spawn_api_server_Retry(target, spawnOk) ==
    IF target = "none" THEN [child |-> None, spawns |-> 0]
    ELSE [child |-> "Some", spawns |-> IF spawnOk THEN 1 ELSE 2]

\* lines 68-94: nothing resolved -> None without spawning; otherwise one
\* Command::spawn whose Result is turned into the Option by .ok()
spawn_api_server(target, spawnOk) ==
    IF target = "none" THEN [child |-> None, spawns |-> 0]
    ELSE [child |-> IF spawnOk THEN "Some" ELSE None, spawns |-> 1]

ScriptSets(depth) ==
    {S \in SUBSET (0 .. depth) : Cardinality(S) <= MaxScripts}

\* -------------------------------------------------------------- Init
Init ==
    /\ unix \in BOOLEAN
    /\ mpc = "start"
    /\ port = 0
    /\ child = None
    /\ healthy = "unset"
    /\ frame = NoFrame
    /\ state = NoState
    /\ proc = "none"
    /\ lock = 0
    /\ tpc = [t \in Handlers |-> "idle"]
    /\ kpc = "none"
    /\ now = 0
    /\ deadline = 0
    /\ wakeAt = 0
    /\ qpc = [q \in Queries |-> "idle"]
    /\ qret = [q \in Queries |-> 0]
    /\ hist = [found |-> FALSE, spawns |-> 0, spawnFailed |-> FALSE, envPort |-> 0, hcPort |-> 0,
               hcRuns |-> 0, picks |-> 0,
               sigterm |-> 0, sigkill |-> 0, killChild |-> 0,
               outcome |-> "none", confirmed |-> FALSE,
               aliveAtDeadline |-> FALSE, pollErr |-> FALSE,
               tfound |-> [t \in Handlers |-> "unset"],
               tafter |-> [t \in Handlers |-> FALSE],
               tsig |-> [t \in Handlers |-> 0],
               waits |-> 0,
               qwaited |-> [q \in Queries |-> FALSE],
               tchanged |-> [t \in Handlers |-> FALSE]]

\* ------------------------------------------------------ main, startup
\* line 168: let port = pick_port();
PickPort ==
    /\ mpc = "start"
    /\ \E inUse \in BOOLEAN, probe \in ProbeResults :
          /\ port' = pick_port(inUse, probe)
          /\ frame' = [fn |-> "pick_port", inUse |-> inUse, probe |-> probe]
    /\ mpc' = "picked"
    /\ hist' = [hist EXCEPT !.picks = @ + 1]
    /\ UNCHANGED <<unix, child, healthy, state, proc, lock, tpc, kpc, now,
                   deadline, wakeAt, qpc, qret>>

\* line 169: let child = spawn_api_server(port);
SpawnApiServer ==
    /\ mpc = "picked"
    /\ \E exeOk \in BOOLEAN, qualified \in BOOLEAN, generic \in BOOLEAN,
          cwdOk \in BOOLEAN, depth \in 0 .. MaxDepth, spawnOk \in BOOLEAN :
        \E scripts \in ScriptSets(depth) :
          LET target == LaunchTarget(exeOk, qualified, generic, cwdOk, depth, scripts)
              level == IF target = "dev"
                       THEN resolve_dev_sidecar(cwdOk, depth, scripts)
                       ELSE NotFound
              tried == target # "none"
              res == spawn_api_server(target, spawnOk)
              got == res.child # None
          IN  /\ frame' = [fn |-> "spawn_api_server", exeOk |-> exeOk,
                           qualified |-> qualified, generic |-> generic,
                           cwdOk |-> cwdOk, depth |-> depth, scripts |-> scripts,
                           target |-> target, level |-> level,
                           spawnOk |-> tried /\ spawnOk]
              /\ child' = IF got THEN "Some" ELSE None
              /\ proc' = IF got THEN "running" ELSE "none"
              /\ hist' = [hist EXCEPT !.found = tried,
                                      !.spawns = @ + res.spawns,
                                      !.spawnFailed = tried /\ ~spawnOk,
                                      !.envPort = IF tried THEN port ELSE @]
    /\ mpc' = "spawned"
    /\ UNCHANGED <<unix, port, healthy, state, lock, tpc, kpc, now, deadline,
                   wakeAt, qpc, qret>>

\* ------------------------------------------------------ HealthChecker
ProbeDurations == {d \in 0 .. PROBE_MAX_MS : d % POLL_MS = 0}

\* lines 171-172 and 97-98: the call, `start` and `url`
HcEnter ==
    /\ mpc = "spawned"
    /\ child # None
    /\ frame' = [fn |-> "wait_for_healthy", port |-> port, elapsed |-> 0,
                 probes |-> 0, at |-> "loop", sawSuccess |-> FALSE,
                 afterSuccess |-> 0, ret |-> "unset"]
    /\ mpc' = "health"
    /\ hist' = [hist EXCEPT !.hcPort = port, !.hcRuns = @ + 1]
    /\ UNCHANGED <<unix, port, child, healthy, state, proc, lock, tpc, kpc, now,
                   deadline, wakeAt, qpc, qret>>

AfterProbe_AnyStatus(outcome) ==
    IF outcome \in {"success", "http_error"} THEN "ret" ELSE "sleep"

\* what one probe's result does to the loop (lines 101-111)
AfterProbe(outcome) ==
    IF outcome = "success" THEN "ret" ELSE "sleep"

\* lines 100-110: the loop test passed, one curl run of duration d
HcProbe ==
    /\ mpc = "health"
    /\ frame.at = "loop"
    /\ frame.elapsed < HEALTH_TIMEOUT_MS
    /\ \E outcome \in ProbeOutcomes, d \in ProbeDurations :
          frame' = [frame EXCEPT
                      !.elapsed = @ + d,
                      !.probes = @ + 1,
                      !.afterSuccess = IF frame.sawSuccess THEN @ + 1 ELSE @,
                      !.sawSuccess = @ \/ outcome = "success",
                      !.at = AfterProbe(outcome),
                      !.ret = IF AfterProbe(outcome) = "ret" THEN "true" ELSE @]
    /\ UNCHANGED <<unix, mpc, port, child, healthy, state, proc, lock, tpc, kpc,
                   now, deadline, wakeAt, qpc, qret, hist>>

\* line 111: thread::sleep(200ms), which may overrun
HcSleep ==
    /\ mpc = "health"
    /\ frame.at = "sleep"
    /\ \E o \in 0 .. MaxOversleep :
          frame' = [frame EXCEPT !.elapsed = @ + HEALTH_SLEEP_MS + o * POLL_MS,
                                 !.at = "loop"]
    /\ UNCHANGED <<unix, mpc, port, child, healthy, state, proc, lock, tpc, kpc,
                   now, deadline, wakeAt, qpc, qret, hist>>

\* lines 100 and 113: the loop test failed
HcTimeout ==
    /\ mpc = "health"
    /\ frame.at = "loop"
    /\ frame.elapsed >= HEALTH_TIMEOUT_MS
    /\ frame' = [frame EXCEPT !.at = "ret", !.ret = "false"]
    /\ UNCHANGED <<unix, mpc, port, child, healthy, state, proc, lock, tpc, kpc,
                   now, deadline, wakeAt, qpc, qret, hist>>

\* lines 172-177: let healthy = ...; either outcome is only logged
HcReturn ==
    /\ mpc = "health"
    /\ frame.at = "ret"
    /\ healthy' = frame.ret
    /\ frame' = NoFrame
    /\ mpc' = "checked"
    /\ UNCHANGED <<unix, port, child, state, proc, lock, tpc, kpc, now, deadline,
                   wakeAt, qpc, qret, hist>>

StoredState_DropUnhealthy(c, p, h) ==
    [child |-> IF h = "false" THEN None ELSE c, port |-> p]

\* line 180: SidecarState { child, port }; `healthy` is not consulted
StoredState(c, p, h) == [child |-> c, port |-> p]

\* line 180: ApiServer(Mutex::new(SidecarState { child, port })), then run()
Store ==
    /\ \/ mpc = "spawned" /\ child = None
       \/ mpc = "checked"
    /\ state' = StoredState(child, port, healthy)
    /\ frame' = NoFrame
    /\ mpc' = "run"
    /\ UNCHANGED <<unix, port, child, healthy, proc, lock, tpc, kpc, now, deadline,
                   wakeAt, qpc, qret, hist>>

\* the sidecar process ends by itself (crash, or its reaction to SIGTERM)
ChildExit ==
    /\ proc = "running"
    /\ proc' = "zombie"
    /\ UNCHANGED <<unix, mpc, port, child, healthy, frame, state, lock, tpc, kpc,
                   now, deadline, wakeAt, qpc, qret, hist>>

\* ------------------------------------------------- ProcessSupervisor
\* Child::try_wait (line 125): the environment may fail the call
TryWaitResult(err) ==
    IF err THEN "Err"
    ELSE IF proc = "running" THEN "None"
    ELSE "Some"

PollArm_NoEscalate(result, t, dl) ==
    IF result = "Some" THEN "break"
    ELSE IF result = "None" /\ t < dl THEN "sleep"
    ELSE "break"

PollArm_NoGrace(result, t, dl) ==
    IF result = "Some" THEN "break" ELSE "kill"

\* the match of lines 125-135
PollArm(result, t, dl) ==
    IF result = "Some" THEN "break"
    ELSE IF result = "None" /\ t < dl THEN "sleep"
    ELSE "kill"

KillChildEntry_ForceOnly == "kill"

\* where kill_child starts: lines 120-137 under cfg(unix), 139-143 otherwise
KillChildEntry == IF unix THEN "sigterm" ELSE "kill"

ClearHandle_Keep(s) == s

ClearHandle_ResetPort(s) == [child |-> None, port |-> DEFAULT_PORT]

\* line 193: guard.child = None
ClearHandle(s) == [s EXCEPT !.child = None]

get_api_port_Default(lockOk, s) == DEFAULT_PORT

\* line 164: lock().map(|s| s.port).unwrap_or(9700)
get_api_port(lockOk, s) == IF lockOk THEN s.port ELSE DEFAULT_PORT

\* the window-Destroyed event reaches the handler (lines 186-188)
Destroyed(t) ==
    /\ mpc = "run"
    /\ tpc[t] = "idle"
    /\ tpc' = [tpc EXCEPT ![t] = "lock"]
    /\ UNCHANGED <<unix, mpc, port, child, healthy, frame, state, proc, lock, kpc,
                   now, deadline, wakeAt, qpc, qret, hist>>

\* lines 189-191: the lock is taken, the handle is looked at, and
\* kill_child (lines 116-118) is entered when it is there
TdAcquire(t) ==
    /\ tpc[t] = "lock"
    /\ lock = 0
    /\ lock' = t
    /\ IF state.child # None
       THEN /\ tpc' = [tpc EXCEPT ![t] = "kill_child"]
            /\ kpc' = KillChildEntry
       ELSE /\ tpc' = [tpc EXCEPT ![t] = "clear"]
            /\ kpc' = kpc
    /\ now' = 0
    /\ hist' = [hist EXCEPT
                  !.tfound[t] = state.child,
                  !.tafter[t] = \E u \in Handlers : tpc[u] = "done",
                  !.killChild = IF state.child # None THEN @ + 1 ELSE @,
                  !.qwaited = [q \in Queries |->
                                 qpc[q] = "lock" /\ state.child # None]]
    /\ UNCHANGED <<unix, mpc, port, child, healthy, frame, state, proc, deadline,
                   wakeAt, qpc, qret>>

\* lines 122-123: libc::kill(pid, SIGTERM); deadline = now + 5s
KcSigterm ==
    /\ kpc = "sigterm"
    /\ deadline' = now + KILL_DEADLINE_MS
    /\ kpc' = "try_wait"
    /\ hist' = [hist EXCEPT !.sigterm = @ + 1, !.tsig[lock] = @ + 1]
    /\ UNCHANGED <<unix, mpc, port, child, healthy, frame, state, proc, lock, tpc,
                   now, wakeAt, qpc, qret>>

\* lines 125-130: one poll and the arm it takes
KcTryWait ==
    /\ kpc = "try_wait"
    /\ \E err \in BOOLEAN :
          LET arm == PollArm(TryWaitResult(err), now, deadline)
          IN  /\ kpc' = CASE arm = "break" -> "ret"
                          [] arm = "sleep" -> "sleep"
                          [] OTHER -> "kill"
              /\ proc' = IF TryWaitResult(err) = "Some" THEN "reaped" ELSE proc
              /\ wakeAt' = IF arm = "sleep" THEN now + POLL_MS ELSE wakeAt
              /\ hist' = [hist EXCEPT
                            !.outcome = IF arm = "break" THEN "clean" ELSE @,
                            !.confirmed = @ \/ TryWaitResult(err) = "Some",
                            !.pollErr = @ \/ err]
    /\ UNCHANGED <<unix, mpc, port, child, healthy, frame, state, lock, tpc, now,
                   deadline, qpc, qret>>

\* time passes while kill_child sleeps (line 128)
Tick ==
    /\ kpc = "sleep"
    /\ now < wakeAt + MaxOversleep * POLL_MS
    /\ now' = now + POLL_MS
    /\ hist' = [hist EXCEPT
                  !.aliveAtDeadline = @ \/ (now' = deadline /\ proc = "running")]
    /\ UNCHANGED <<unix, mpc, port, child, healthy, frame, state, proc, lock, tpc,
                   kpc, deadline, wakeAt, qpc, qret>>

\* line 128: thread::sleep returns, not before its 100ms are over
KcWake ==
    /\ kpc = "sleep"
    /\ now >= wakeAt
    /\ kpc' = "try_wait"
    /\ UNCHANGED <<unix, mpc, port, child, healthy, frame, state, proc, lock, tpc,
                   now, deadline, wakeAt, qpc, qret, hist>>

\* lines 131 and 141: let _ = child.kill(); SIGKILL ends a running child
\* unless the call fails
KcKill ==
    /\ kpc = "kill"
    /\ \E ok \in BOOLEAN :
          proc' = IF ok /\ proc = "running" THEN "zombie" ELSE proc
    /\ kpc' = "wait"
    /\ hist' = [hist EXCEPT !.sigkill = @ + 1, !.tsig[lock] = @ + 1,
                            !.outcome = "forced"]
    /\ UNCHANGED <<unix, mpc, port, child, healthy, frame, state, lock, tpc, now,
                   deadline, wakeAt, qpc, qret>>

\* lines 132 and 142: let _ = child.wait(); blocks while the child runs
KcWait ==
    /\ kpc = "wait"
    /\ proc # "running"
    /\ \E err \in BOOLEAN :
          /\ proc' = IF err THEN proc ELSE "reaped"
          /\ hist' = [hist EXCEPT !.confirmed = @ \/ ~err, !.waits = @ + 1]
    /\ kpc' = "ret"
    /\ UNCHANGED <<unix, mpc, port, child, healthy, frame, state, lock, tpc, now,
                   deadline, wakeAt, qpc, qret>>

\* lines 193-194: the handle is cleared and the guard dropped
TdClear(t) ==
    /\ lock = t
    /\ \/ tpc[t] = "clear"
       \/ tpc[t] = "kill_child" /\ kpc = "ret"
    /\ state' = ClearHandle(state)
    /\ lock' = 0
    /\ tpc' = [tpc EXCEPT ![t] = "done"]
    /\ kpc' = "none"
    /\ now' = 0
    /\ deadline' = 0
    /\ wakeAt' = 0
    /\ hist' = [hist EXCEPT
                  !.tchanged[t] = ClearHandle(state) # state]
    /\ UNCHANGED <<unix, mpc, port, child, healthy, frame, proc, qpc, qret>>

\* ------------------------------------------------------- get_api_port
\* the command is invoked (line 163)
QCall(q) ==
    /\ mpc = "run"
    /\ qpc[q] = "idle"
    /\ qpc' = [qpc EXCEPT ![q] = "lock"]
    /\ hist' = [hist EXCEPT !.qwaited[q] = kpc # "none" /\ now = 0]
    /\ UNCHANGED <<unix, mpc, port, child, healthy, frame, state, proc, lock, tpc,
                   kpc, now, deadline, wakeAt, qret>>

\* line 164: the lock is taken, the port read, the guard dropped
QRead(q) ==
    /\ qpc[q] = "lock"
    /\ lock = 0
    /\ qret' = [qret EXCEPT ![q] = get_api_port(TRUE, state)]
    /\ qpc' = [qpc EXCEPT ![q] = "done"]
    /\ hist' = [hist EXCEPT !.qwaited[q] = FALSE]
    /\ UNCHANGED <<unix, mpc, port, child, healthy, frame, state, proc, lock, tpc,
                   kpc, now, deadline, wakeAt>>

Next ==
    \/ PickPort
    \/ SpawnApiServer
    \/ HcEnter
    \/ HcProbe
    \/ HcSleep
    \/ HcTimeout
    \/ HcReturn
    \/ Store
    \/ ChildExit
    \/ \E t \in Handlers : Destroyed(t)
    \/ \E t \in Handlers : TdAcquire(t)
    \/ KcSigterm
    \/ KcTryWait
    \/ Tick
    \/ KcWake
    \/ KcKill
    \/ KcWait
    \/ \E t \in Handlers : TdClear(t)
    \/ \E q \in Queries : QCall(q)
    \/ \E q \in Queries : QRead(q)

Spec == Init /\ [][Next]_vars

\* ---------------------------------------------------------- fairness
\* Every thread that can take a step of the program takes it, and time
\* passes while a thread sleeps.  Nothing obliges the child to exit, a
\* window to be destroyed or a query to be issued.
MainStep ==
    PickPort \/ SpawnApiServer \/ HcEnter \/ HcProbe \/ HcSleep \/ HcTimeout
        \/ HcReturn \/ Store

KillChildStep == KcSigterm \/ KcTryWait \/ Tick \/ KcWake \/ KcKill \/ KcWait

FairSpec ==
    /\ Spec
    /\ WF_vars(MainStep)
    /\ WF_vars(KillChildStep)
    /\ \A t \in Handlers : WF_vars(TdAcquire(t) \/ TdClear(t))
    /\ \A q \in Queries : WF_vars(QRead(q))

\* ------------------------------------------------------------ claims

\* C1: teardown is idempotent.  Over any number of Destroyed events the
\* termination sequence runs at most once (at most one kill_child, one
\* SIGTERM, one force-kill), and a teardown that takes the lock after another
\* teardown has completed finds no child handle, sends no signal and leaves
\* every field of SidecarState as it was.
C1_TeardownIdempotent ==
    /\ hist.killChild <= 1
    /\ hist.sigterm <= 1
    /\ hist.sigkill <= 1
    /\ \A t \in Handlers :
          hist.tafter[t] =>
              /\ hist.tfound[t] = None
              /\ hist.tsig[t] = 0
              /\ ~hist.tchanged[t]

C1_Witness ==
    \E t \in Handlers, u \in Handlers :
        /\ t # u
        /\ tpc[t] = "done" /\ tpc[u] = "done"
        /\ hist.tfound[t] = "Some" /\ hist.tsig[t] > 0
        /\ hist.tafter[u]

\* C2: a handled Destroyed event leaves no child handle and no running
\* sidecar: once a handler has returned the handle is None and the process
\* is not running, and when the handler found a handle kill_child has run
\* to one of its two ends.
C2_TeardownTerminates ==
    \A t \in Handlers :
        tpc[t] = "done" =>
            /\ state.child = None
            /\ proc # "running"
            /\ hist.tfound[t] = "Some" =>
                   hist.killChild >= 1 /\ hist.outcome \in {"clean", "forced"}

C2_Witness ==
    \E t \in Handlers :
        /\ tpc[t] = "done"
        /\ hist.tfound[t] = "Some"
        /\ hist.outcome = "forced"
        /\ hist.aliveAtDeadline

\* C3 (as claimed): whenever kill_child returns, a successful try_wait or
\* wait has observed the child's exit status.
C3_ReapedOnReturn ==
    kpc = "ret" => hist.confirmed

\* C4 (as claimed): on a build with graceful signals, kill_child ends in a
\* clean stop exactly when the child exited within 5 seconds of SIGTERM and
\* in a forced stop exactly when the child was still alive once the 5
\* seconds had elapsed.
C4_CleanIffExitedInGrace ==
    (unix /\ kpc = "ret") =>
        /\ hist.outcome = "clean" <=> ~hist.aliveAtDeadline
        /\ hist.outcome = "forced" <=> hist.aliveAtDeadline

\* C4 (amended): kill_child ends in a clean stop exactly when a poll observes
\* the exit and no force-kill was issued, which is what happens whenever the
\* child has exited by the deadline and no poll fails; it ends in a forced stop
\* only after a failed poll or after a poll at or past the deadline found the
\* child, alive at the deadline, still running.  Successive polls are at
\* least POLL_MS apart.
C4_CleanIffPollSawExit ==
    /\ (unix /\ kpc = "ret") =>
          /\ (~hist.pollErr /\ ~hist.aliveAtDeadline) => hist.outcome = "clean"
          /\ hist.outcome = "forced" =>
                 hist.pollErr \/ (hist.aliveAtDeadline /\ now >= deadline)
          /\ hist.outcome = "clean" <=> hist.sigkill = 0
          /\ hist.outcome = "clean" => hist.confirmed
    /\ (unix /\ kpc = "try_wait") => now >= wakeAt

C4_Witness ==
    /\ unix
    /\ kpc = "ret"
    /\ hist.outcome = "clean"
    /\ hist.aliveAtDeadline
    /\ ~hist.pollErr

\* C5 (as claimed): kill_child always eventually returns, whatever the child
\* does and also when the force-kill fails.
C5_KillChildReturns ==
    (kpc \notin {"none", "ret"}) ~> (kpc = "ret")

\* C6: the port of SidecarState is set once, to the value pick_port returned,
\* and no step changes it afterwards; main's `port` does not change either.
C6_PortSetOnce ==
    [][/\ state # NoState => (state' # NoState /\ state'.port = state.port)
       /\ (state = NoState /\ state' # NoState) =>
              (state'.port = port /\ hist.picks = 1)
       /\ mpc # "start" => port' = port]_vars

C6_Witness ==
    /\ state.port = port
    /\ port # DEFAULT_PORT
    /\ healthy = "false"
    /\ \A t \in Handlers : tpc[t] = "done"
    /\ \A q \in Queries : qpc[q] = "done"
    /\ hist.killChild = 1

\* C7 (as claimed): every get_api_port call returns a value, the stored port
\* when it got the lock, and no call blocks for ever, also next to a teardown.
C7_GetApiPortReturns ==
    /\ [](\A q \in Queries : qpc[q] = "done" => qret[q] = state.port)
    /\ \A q \in Queries : (qpc[q] = "lock") ~> (qpc[q] = "done")

\* the file system offers neither binary nor a script within the levels
\* resolve_dev_sidecar examines
NoTargetOnDisk ==
    /\ ~frame.qualified
    /\ ~frame.generic
    /\ frame.scripts \cap (0 .. MAX_LEVELS - 1) = {}

\* C8: with no packaged binary and no dev script within the searched levels,
\* resolution finds nothing, no spawn is attempted and no health check run;
\* the stored state has no handle, get_api_port returns the picked port and
\* teardown sends no signal.
C8_NothingToLaunch ==
    /\ (mpc = "spawned" /\ NoTargetOnDisk) =>
          (frame.target = "none" /\ ~hist.found)
    /\ (mpc \in {"spawned", "run"} /\ ~hist.found) =>
          /\ hist.spawns = 0
          /\ hist.hcRuns = 0
          /\ child = None
          /\ proc = "none"
          /\ mpc = "run" => state.child = None
          /\ \A q \in Queries : qpc[q] = "done" => qret[q] = port
          /\ hist.killChild = 0 /\ hist.sigterm = 0 /\ hist.sigkill = 0

C8_Witness ==
    /\ mpc = "run"
    /\ ~hist.found
    /\ port # DEFAULT_PORT
    /\ \A t \in Handlers : tpc[t] = "done"
    /\ \A q \in Queries : qpc[q] = "done" /\ qret[q] = port

\* C9: startup neither waits on nor aborts over sidecar health.  The health
\* check runs exactly when spawn returned a child, never more than once and
\* for at most HEALTH_TIMEOUT_MS / HEALTH_SLEEP_MS probes; main always has a
\* next step until it has stored the state; whatever the check returned, the
\* stored state holds the spawned handle and the picked port, and up to then
\* no signal has been sent to the child.
C9_StartupProceeds ==
    /\ mpc # "run" => ENABLED MainStep
    /\ mpc \in {"health", "checked", "run"} =>
          (hist.hcRuns = 1 <=> child # None)
    /\ hist.hcRuns <= 1
    /\ mpc = "health" => frame.probes * HEALTH_SLEEP_MS <= HEALTH_TIMEOUT_MS
    /\ mpc \in {"checked", "run"} => (healthy \in {"true", "false"} <=> child # None)
    /\ (mpc = "run" /\ \A t \in Handlers : tpc[t] \in {"idle", "lock"}) =>
          (state.child = child /\ state.port = port)
    /\ mpc # "run" => (hist.sigterm = 0 /\ hist.sigkill = 0 /\ state = NoState)

C9_Witness ==
    /\ mpc = "run"
    /\ healthy = "false"
    /\ state.child = "Some"
    /\ state.port = port
    /\ proc = "running"

\* C10: wait_for_healthy returns true exactly when a probe saw an HTTP success,
\* at that probe and with no probe after it; it returns false only with no
\* successful probe and the timeout elapsed; any other probe result leads to
\* the sleep and back to the loop test.
C10_HealthyIffProbeSucceeded ==
    mpc = "health" =>
        /\ frame.ret = "true" <=> frame.sawSuccess
        /\ frame.sawSuccess => (frame.at = "ret" /\ frame.afterSuccess = 0)
        /\ frame.ret = "false" =>
               (~frame.sawSuccess /\ frame.elapsed >= HEALTH_TIMEOUT_MS)
        /\ frame.at = "sleep" => (~frame.sawSuccess /\ frame.probes >= 1)
        /\ frame.at = "ret" => frame.ret \in {"true", "false"}

C10_Witness ==
    /\ mpc = "health"
    /\ frame.at = "ret"
    /\ frame.ret = "true"
    /\ frame.probes = 3

\* C11 (as claimed): with an endpoint that never answers, the time spent in
\* wait_for_healthy never exceeds the timeout plus one probe of PROBE_MAX_MS.
C11_WithinTimeoutPlusProbe ==
    (mpc = "health" /\ ~frame.sawSuccess) =>
        frame.elapsed <= HEALTH_TIMEOUT_MS + PROBE_MAX_MS

\* C12 (as claimed): whenever 9700 is occupied when pick_port checks it, the
\* port pick_port returns is not 9700.
C12_OccupiedNeverDefault ==
    (mpc = "picked" /\ frame.inUse) => port # DEFAULT_PORT

\* C12 (amended): with 9700 occupied, pick_port returns the port the OS
\* assigned to the bind of port 0, which is not 9700, when that probe
\* succeeds, and 9700 itself when the probe fails.
C12_OccupiedUsesProbe ==
    (mpc = "picked" /\ frame.inUse) =>
        /\ frame.probe.ok =>
               (port = frame.probe.port /\ port \in EphemeralPorts
                   /\ port # DEFAULT_PORT)
        /\ ~frame.probe.ok => port = DEFAULT_PORT

C12_Witness ==
    /\ mpc = "picked"
    /\ frame.inUse
    /\ frame.probe.ok
    /\ port # DEFAULT_PORT

\* C13: pick_port always yields a port: 9700 when 9700 can be bound, else the
\* port of a successful bind of port 0, else 9700 again; nothing else is ever
\* returned and main always gets past the call.
C13_PickPortTotal ==
    /\ mpc = "start" => ENABLED PickPort
    /\ mpc # "start" =>
          /\ port \in EphemeralPorts \cup {DEFAULT_PORT}
          /\ hist.picks = 1
    /\ mpc = "picked" =>
          port = CASE ~frame.inUse -> DEFAULT_PORT
                   [] frame.inUse /\ frame.probe.ok -> frame.probe.port
                   [] OTHER -> DEFAULT_PORT

C13_Witness ==
    /\ mpc = "picked"
    /\ frame.inUse
    /\ ~frame.probe.ok
    /\ port = DEFAULT_PORT

\* C14 (as claimed): the launch target is the first that exists in the order
\* platform-qualified binary, generic binary, dev script; the dev script is
\* chosen only when neither binary exists next to the executable.
C14_FirstMatchWins ==
    mpc = "spawned" =>
        /\ frame.qualified => frame.target = "qualified"
        /\ (~frame.qualified /\ frame.generic) => frame.target = "generic"
        /\ frame.target = "dev" => (~frame.qualified /\ ~frame.generic)

\* the directories resolve_dev_sidecar may look at: the working directory
\* (level 0) and its parents, MAX_LEVELS in all, none above the root
ExaminedLevels == 0 .. (IF frame.depth < MAX_LEVELS - 1 THEN frame.depth
                        ELSE MAX_LEVELS - 1)

\* C15: whenever the dev search runs, it looks at no more than MAX_LEVELS
\* directories (working directory and successive parents, none above the
\* root), returns the nearest of them holding the script, and NotFound when
\* none of them does, whatever more distant ancestors hold.
C15_DevSearchBounded ==
    (mpc = "spawned" /\ frame.target \in {"dev", "none"} /\ frame.cwdOk) =>
        LET hits == frame.scripts \cap ExaminedLevels
        IN  /\ Cardinality(ExaminedLevels) <= MAX_LEVELS
            /\ hits = {} => (frame.level = NotFound /\ frame.target = "none")
            /\ hits # {} =>
                  /\ frame.target = "dev"
                  /\ frame.level \in hits
                  /\ \A l \in hits : frame.level <= l

C15_Witness ==
    /\ mpc = "spawned"
    /\ frame.cwdOk
    /\ frame.target = "none"
    /\ frame.depth >= MAX_LEVELS
    /\ frame.scripts = {MAX_LEVELS}

\* C16 (as claimed): a get_api_port call that has been waiting for the lock
\* since kill_child began is never still waiting when more than
\* KILL_DEADLINE_MS have passed on kill_child's clock, and a call that has
\* returned has returned the stored port.
C16_BlockedAtMostDeadline ==
    \A q \in Queries :
        /\ (qpc[q] = "lock" /\ hist.qwaited[q]) => now <= KILL_DEADLINE_MS
        /\ qpc[q] = "done" => qret[q] = state.port

\* C17: a startup makes at most one spawn attempt; when that attempt fails
\* nothing else is tried, and startup goes on as after a failed resolution:
\* no handle, no health check, the picked port stored, main reaching run().
C17_FailedSpawnTerminal ==
    /\ hist.spawns <= 1
    /\ hist.spawnFailed =>
          /\ hist.spawns = 1
          /\ child = None
          /\ proc = "none"
          /\ hist.hcRuns = 0
          /\ healthy = "unset"
          /\ mpc \in {"spawned", "run"}
          /\ mpc = "spawned" => ENABLED Store
          /\ mpc = "run" => state = [child |-> None, port |-> port]
          /\ \A q \in Queries : qpc[q] = "done" => qret[q] = port
          /\ hist.killChild = 0 /\ hist.sigterm = 0 /\ hist.sigkill = 0

C17_Witness ==
    /\ hist.spawnFailed
    /\ hist.envPort # DEFAULT_PORT
    /\ mpc = "run"
    /\ state.child = None
    /\ \E t \in Handlers : tpc[t] = "done"

\* C18: under cfg(unix), kill_child sends SIGTERM exactly once, before any
\* SIGKILL; SIGKILL is sent at most once, only on a poll error or at or after
\* the deadline with no poll having seen the exit, never after a poll saw the
\* exit, and child.wait() is what follows it.
C18_SignalOrder ==
    unix =>
        /\ hist.sigterm <= 1 /\ hist.sigkill <= 1 /\ hist.waits <= hist.sigkill
        /\ kpc \in {"try_wait", "sleep", "kill", "wait", "ret"} =>
              hist.sigterm = 1
        /\ kpc = "sigterm" => (hist.sigterm = 0 /\ hist.sigkill = 0)
        /\ kpc = "kill" =>
              /\ hist.sigkill = 0
              /\ hist.pollErr \/ now >= deadline
              /\ ~hist.confirmed
              /\ hist.outcome # "clean"
        /\ hist.sigkill = 1 =>
              /\ hist.sigterm = 1
              /\ kpc = "wait" \/ hist.waits = 1
              /\ hist.outcome = "forced"
        /\ hist.outcome = "clean" => (hist.sigkill = 0 /\ hist.waits = 0)

C18_Witness ==
    /\ unix
    /\ kpc = "ret"
    /\ hist.sigterm = 1
    /\ hist.sigkill = 1
    /\ hist.waits = 1
    /\ ~hist.pollErr
    /\ now >= deadline

\* C19: pick_port is called once, and its result is the PORT handed to the
\* child, the port wait_for_healthy probes, the port stored in SidecarState
\* and the port every completed get_api_port returns.
C19_OnePort ==
    /\ hist.picks = (IF mpc = "start" THEN 0 ELSE 1)
    /\ mpc = "picked" => port = pick_port(frame.inUse, frame.probe)
    /\ hist.found => hist.envPort = port
    /\ hist.hcRuns > 0 => hist.hcPort = port
    /\ mpc = "health" => frame.port = port
    /\ state # NoState => state.port = port
    /\ \A q \in Queries : qpc[q] = "done" => qret[q] = port

C19_Witness ==
    /\ port # DEFAULT_PORT
    /\ hist.envPort = port
    /\ hist.hcPort = port
    /\ state # NoState
    /\ state.port = port
    /\ \A q \in Queries : qpc[q] = "done" /\ qret[q] = port
    /\ \E t \in Handlers : tpc[t] = "done"

\* what C20 says of a single state
HandleDiscipline ==
    /\ kpc \in {"sigterm", "kill"} => proc \in {"running", "zombie"}
    /\ (state # NoState /\ state.child # None) =>
          /\ hist.spawns = 1 /\ ~hist.spawnFailed
          /\ proc # "none"
          /\ proc = "reaped" => (lock # 0 /\ tpc[lock] = "kill_child")
          /\ \A t \in Handlers : tpc[t] # "done"
    /\ proc = "reaped" => hist.killChild = 1

\* C20: SIGTERM and SIGKILL are sent only while the child is unreaped; the
\* handle is in SidecarState only from a successful spawn to the first
\* completed teardown; the child is reaped only by kill_child's try_wait or
\* wait; and a handle that is None never becomes Some again.
C20_SignalsOnlyUnreaped ==
    [][/\ HandleDiscipline
       /\ HandleDiscipline'
       /\ (hist'.sigterm # hist.sigterm \/ hist'.sigkill # hist.sigkill) =>
              proc \in {"running", "zombie"}
       /\ (proc # "reaped" /\ proc' = "reaped") =>
              kpc \in {"try_wait", "wait"}
       /\ (state # NoState /\ state.child = None) => state'.child = None
       /\ (state = NoState /\ state' # NoState /\ state'.child # None) =>
              (child # None /\ proc \in {"running", "zombie"})]_vars

C20_Witness ==
    /\ \A t \in Handlers : tpc[t] = "done"
    /\ hist.killChild = 1
    /\ hist.sigkill = 1
    /\ proc = "reaped"
    /\ state.child = None

====
